---- MODULE Spec2Model ----
(***************************************************************************)
(* The users service of src/main.rs: a listener that spawns one task per   *)
(* accepted connection; each task frames one request, routes it by prefix, *)
(* validates it, opens one database session, issues its statement(s) on    *)
(* the `users` table and writes one response.                              *)
(*                                                                         *)
(* Request text is a sequence of tokens (each token a run of bytes).  The  *)
(* token "CRLF" is "\r\n"; " " is one space; "/" one slash; one-character  *)
(* tokens spell identifiers and emails.  128-bit identifiers are scaled to *)
(* UuidTextLen hex digits.                                                 *)
(***************************************************************************)
EXTENDS Integers, Sequences, FiniteSets, TLC

(***************************************************************************)
(* Bounds of the model.                                                    *)
(***************************************************************************)
\* connections the listener accepts in one behaviour
NumConns == 2

\* rows the users table may hold when the service starts
MaxInitRows == 2

(***************************************************************************)
(* Status lines (main.rs 10-13).                                           *)
(***************************************************************************)
NOT_FOUND == [code |-> 404, headers |-> <<>>]

BAD_REQUEST == [code |-> 400, headers |-> <<>>]

OK_RESPONSE == [code |-> 200, headers |-> <<"Content-Type: application/json">>]

INTERNAL_SERVER_ERROR == [code |-> 500, headers |-> <<>>]

(***************************************************************************)
(* Option<T>: <<>> is None, <<v>> is Some(v).                              *)
(***************************************************************************)
None == <<>>

Some(v) == <<v>>

(***************************************************************************)
(* Text helpers.                                                           *)
(***************************************************************************)
Whitespace == {" ", "CRLF"}

\* str::starts_with
StartsWith(s, p) == Len(s) >= Len(p) /\ SubSeq(s, 1, Len(p)) = p

\* str::split(sep) for a one-token separator: n separators give n+1 pieces
RECURSIVE SplitOn(_, _)
SplitOn(s, sep) ==
    IF \A i \in 1..Len(s) : s[i] # sep
    THEN <<s>>
    ELSE LET k == CHOOSE i \in 1..Len(s) :
                      s[i] = sep /\ \A j \in 1..(i - 1) : s[j] # sep
         IN  <<SubSeq(s, 1, k - 1)>> \o SplitOn(SubSeq(s, k + 1, Len(s)), sep)

\* positions where the header/body boundary "\r\n\r\n" starts
BoundaryAt(s) == {i \in 1..(Len(s) - 1) : s[i] = "CRLF" /\ s[i + 1] = "CRLF"}

\* buffer.windows(4).any(|w| w == b"\r\n\r\n")
HasBoundary(s) == BoundaryAt(s) # {}

\* str::split("\r\n\r\n"): leftmost, non-overlapping matches
RECURSIVE SplitBoundary(_)
SplitBoundary(s) ==
    IF ~HasBoundary(s)
    THEN <<s>>
    ELSE LET k == CHOOSE i \in BoundaryAt(s) : \A j \in BoundaryAt(s) : i <= j
         IN  <<SubSeq(s, 1, k - 1)>> \o SplitBoundary(SubSeq(s, k + 2, Len(s)))

\* Iterator::nth(n) followed by unwrap_or_default()
NthOrDefault(pieces, n) == IF Len(pieces) >= n + 1 THEN pieces[n + 1] ELSE <<>>

\* str::split_whitespace().next().unwrap_or_default()
FirstWord(s) ==
    LET starts == {i \in 1..Len(s) : s[i] \notin Whitespace}
    IN  IF starts = {}
        THEN <<>>
        ELSE LET a == CHOOSE i \in starts : \A j \in starts : i <= j
                 ends == {i \in a..Len(s) : s[i] \in Whitespace}
                 b == IF ends = {}
                      THEN Len(s)
                      ELSE (CHOOSE i \in ends : \A j \in ends : i <= j) - 1
             IN  SubSeq(s, a, b)

\* the user ID segment of a request path like "/users/<id>"
get_user_id_from_request(req) == FirstWord(NthOrDefault(SplitOn(req, "/"), 2))

\* req.split("\r\n\r\n").nth(1).unwrap_or_default()
BodyOf(req) == NthOrDefault(SplitBoundary(req), 1)

(***************************************************************************)
(* Uuid::parse_str, scaled: UuidTextLen hex digits of either case.         *)
(***************************************************************************)
UuidTextLen == 2

HexLower == <<"0", "1", "2", "3", "4", "5", "6", "7", "8", "9", "a", "b", "c", "d", "e", "f">>

HexUpper == <<"0", "1", "2", "3", "4", "5", "6", "7", "8", "9", "A", "B", "C", "D", "E", "F">>

IsHex(t) == \E i \in 1..16 : HexLower[i] = t \/ HexUpper[i] = t

HexVal(t) == (CHOOSE i \in 1..16 : HexLower[i] = t \/ HexUpper[i] = t) - 1

RECURSIVE HexNumber(_)
HexNumber(text) ==
    IF text = <<>>
    THEN 0
    ELSE 16 * HexNumber(SubSeq(text, 1, Len(text) - 1)) + HexVal(text[Len(text)])

\* Ok(uuid) as Some(uuid), Err(_) as None
ParseUuid(text) ==
    IF Len(text) = UuidTextLen /\ \A i \in 1..Len(text) : IsHex(text[i])
    THEN Some(HexNumber(text))
    ELSE None

\* Uuid's Display/Serialize: lower-case hex
RECURSIVE UuidText(_, _)
UuidText(u, n) ==
    IF n = 0 THEN <<>> ELSE UuidText(u \div 16, n - 1) \o <<HexLower[(u % 16) + 1]>>

(***************************************************************************)
(* The email-shape rule (main.rs 199):                                     *)
(*   ^[^\s@.]+(\.[^\s@.]+)*@[^\s@.]+(\.[^\s@.]+)+$                         *)
(***************************************************************************)
\* [^\s@.]+ : a non-empty run without whitespace, '@' or '.'
IsLabel(s) == Len(s) >= 1 /\ \A i \in 1..Len(s) : s[i] \notin (Whitespace \cup {"@", "."})

Labels(s) == SplitOn(s, ".")

email_regex_is_match(email) ==
    LET parts == SplitOn(email, "@")
    IN  /\ Len(parts) = 2
        /\ \A i \in 1..Len(Labels(parts[1])) : IsLabel(Labels(parts[1])[i])
        /\ Len(Labels(parts[2])) >= 2
        /\ \A i \in 1..Len(Labels(parts[2])) : IsLabel(Labels(parts[2])[i])

(***************************************************************************)
(* serde_json::from_str::<User> (main.rs 15-24, 193).  A JSON object is    *)
(* spelled  { key: value , key: value }  with a string value written       *)
(* ' tokens ' , and the values null, true, false.  Strings of the request  *)
(* pools hold no "," and no "'".                                           *)
(***************************************************************************)
Keys == {"id:", "name:", "email:", "role:", "banned:", "extra:"}

\* JSON whitespace around the document is skipped
RECURSIVE Trim(_)
Trim(s) ==
    IF s = <<>> THEN s
    ELSE IF s[1] \in Whitespace THEN Trim(Tail(s))
    ELSE IF s[Len(s)] \in Whitespace THEN Trim(SubSeq(s, 1, Len(s) - 1))
    ELSE s

IsJsonString(v) ==
    /\ Len(v) >= 2
    /\ v[1] = "'"
    /\ v[Len(v)] = "'"
    /\ \A i \in 2..(Len(v) - 1) : v[i] # "'"

StringOf(v) == SubSeq(v, 2, Len(v) - 1)

IsJsonBool(v) == v = <<"true">> \/ v = <<"false">>

IsJsonNull(v) == v = <<"null">>

IsJsonValue(v) == IsJsonString(v) \/ IsJsonBool(v) \/ IsJsonNull(v)

\* the members of the object, or None when the text is no JSON object
JsonMembers(body) ==
    LET t == Trim(body)
    IN  IF Len(t) < 2 \/ t[1] # "{" \/ t[Len(t)] # "}"
        THEN None
        ELSE LET inner == SubSeq(t, 2, Len(t) - 1)
                 fs == IF inner = <<>> THEN <<>> ELSE SplitOn(inner, ",")
             IN  IF \A i \in 1..Len(fs) :
                        /\ Len(fs[i]) >= 2
                        /\ fs[i][1] \in Keys
                        /\ IsJsonValue(Tail(fs[i]))
                 THEN Some(fs)
                 ELSE None

\* Ok(user) as Some(user), Err(_) as None
DecodeUser(body) ==
    LET m == JsonMembers(body)
    IN  IF m = None
        THEN None
        ELSE LET fs == m[1]
                 At(k) == {i \in 1..Len(fs) : fs[i][1] = k}
                 Val(k) == Tail(fs[CHOOSE i \in At(k) : TRUE])
                 \* a duplicate field is an error
                 Single == \A k \in Keys \ {"extra:"} : Cardinality(At(k)) <= 1
                 \* String: required, must be a string
                 Req(k) == At(k) # {} /\ IsJsonString(Val(k))
                 \* Option<T>: absent or null is None
                 Absent(k) == At(k) = {} \/ IsJsonNull(Val(k))
                 IdOk == Absent("id:") \/
                           (IsJsonString(Val("id:")) /\ ParseUuid(StringOf(Val("id:"))) # None)
                 RoleOk == Absent("role:") \/ IsJsonString(Val("role:"))
                 BannedOk == Absent("banned:") \/ IsJsonBool(Val("banned:"))
             IN  IF Single /\ Req("name:") /\ Req("email:") /\ IdOk /\ RoleOk /\ BannedOk
                 THEN Some([id |-> IF Absent("id:") THEN None
                                   ELSE ParseUuid(StringOf(Val("id:"))),
                            name |-> StringOf(Val("name:")),
                            email |-> StringOf(Val("email:")),
                            role |-> IF Absent("role:") THEN None
                                     ELSE Some(StringOf(Val("role:"))),
                            banned |-> IF Absent("banned:") THEN None
                                       ELSE Some(Val("banned:") = <<"true">>)])
                 ELSE None

(***************************************************************************)
(* The users table (main.rs 119-127):                                      *)
(*   id UUID PRIMARY KEY DEFAULT gen_random_uuid(), name TEXT NOT NULL,    *)
(*   email TEXT NOT NULL UNIQUE, role TEXT NOT NULL DEFAULT 'user',        *)
(*   banned BOOLEAN DEFAULT FALSE                                          *)
(* A row is [id, name, email, role, banned]; banned is nullable, so it is  *)
(* an Option.                                                              *)
(***************************************************************************)
\* identifiers: enough for every row a behaviour can hold
Uuids == 1..(MaxInitRows + NumConns)

IdsOf(s) == {r.id : r \in s}

\* gen_random_uuid(): an identifier no row has.  Unused identifiers differ
\* only in whether a request names them, so the two least stand for all.
GenRandomUuid(s) ==
    LET free == Uuids \ IdsOf(s)
    IN  {u \in free : Cardinality({w \in free : w < u}) < 2}

EmailsOf(s) == {r.email : r \in s}

RowsWithEmail(s, email) == {r \in s : r.email = email}

\* PRIMARY KEY and UNIQUE hold of a table
TableOk(s) ==
    \A r1, r2 \in s : (r1.id = r2.id \/ r1.email = r2.email) => r1 = r2

\* SELECT id, name, email, role, banned FROM users WHERE id = $1
SelectById(s, id) == {r \in s : r.id = id}

\* faulty variant: the existence check compares the name column
SelectExistsByName(s, email) == \E r \in s : r.name = email

\* SELECT EXISTS(SELECT 1 FROM users WHERE email=$1)
SelectExists(s, email) == \E r \in s : r.email = email

\* faulty variant: the banned column has no DEFAULT FALSE
NewRowBannedNull(id, name, email) ==
    [id |-> id, name |-> name, email |-> email, role |-> <<"user">>, banned |-> None]

\* the row INSERT INTO users (name, email) VALUES ($1, $2) builds
NewRow(id, name, email) ==
    [id |-> id, name |-> name, email |-> email, role |-> <<"user">>, banned |-> Some(FALSE)]

\* faulty variant: the email column is not UNIQUE
InsertRejectedIdOnly(s, id, email) == id \in IdsOf(s)

\* the INSERT is rejected: PRIMARY KEY or UNIQUE(email) would be violated
InsertRejected(s, id, email) == id \in IdsOf(s) \/ email \in EmailsOf(s)

\* faulty variant: the UPDATE also sets id, from the body when it has one
UpdatedRowBodyId(r, user) ==
    [id |-> IF user.id = None THEN r.id ELSE user.id[1],
     name |-> user.name, email |-> user.email,
     role |-> IF user.role = None THEN None ELSE user.role[1],
     banned |-> user.banned]

\* the row UPDATE users SET name=$1, email=$2, role=$3, banned=$4 builds
UpdatedRow(r, user) ==
    [id |-> r.id, name |-> user.name, email |-> user.email,
     role |-> IF user.role = None THEN None ELSE user.role[1],
     banned |-> user.banned]

\* faulty variant: the NOT NULL check is made of the parameter, matched row or not
UpdateRejectedUnmatched(s, id, user) ==
    \/ user.role = None
    \/ /\ SelectById(s, id) # {}
       /\ \E r \in s : r.id # id /\ r.email = user.email

\* the UPDATE is rejected: a matched row would get a NULL role (NOT NULL)
\* or the email of another row (UNIQUE)
UpdateRejected(s, id, user) ==
    /\ SelectById(s, id) # {}
    /\ \/ user.role = None
       \/ \E r \in s : r.id # id /\ r.email = user.email

UpdateRows(s, id, user) == {IF r.id = id THEN UpdatedRow(r, user) ELSE r : r \in s}

\* faulty variant: the WHERE clause is inverted
DeleteRowsOthers(s, id) == {r \in s : r.id = id}

\* DELETE FROM users WHERE id=$1
DeleteRows(s, id) == {r \in s : r.id # id}

\* faulty variant: the SELECT may leave rows out
OrderingsSkipping(s) ==
    UNION {{q \in [1..Cardinality(t) -> t] : \A i, j \in 1..Cardinality(t) : q[i] = q[j] => i = j}
             : t \in SUBSET s}

\* every order a SELECT without ORDER BY may return the rows in
Orderings(s) ==
    {q \in [1..Cardinality(s) -> s] : \A i, j \in 1..Cardinality(s) : q[i] = q[j] => i = j}

\* User { id: Some(row.get(0)), name: row.get(1), email: row.get(2),
\*        role: row.get(3), banned: row.get(4) }
UserOfRow(r) ==
    [id |-> Some(r.id), name |-> r.name, email |-> r.email,
     role |-> Some(r.role), banned |-> r.banned]

(***************************************************************************)
(* Response bodies.                                                        *)
(***************************************************************************)
Text(t) == [type |-> "text", text |-> t, users |-> <<>>]

\* serde_json::to_string(&user)
JsonObject(u) == [type |-> "object", text |-> "", users |-> <<u>>]

\* serde_json::to_string(&users)
JsonArray(us) == [type |-> "array", text |-> "", users |-> us]

(***************************************************************************)
(* What clients send.                                                      *)
(***************************************************************************)
Quote == "'"

JsonString(s) == <<Quote>> \o s \o <<Quote>>

\* {"name": ..., "email": ...}
Body(name, email) ==
    <<"{", "name:">> \o JsonString(name) \o <<",", "email:">> \o JsonString(email) \o <<"}">>

\* {"name": ..., "email": ..., "role": ..., "banned": ...}
FullBody(name, email, role, banned) ==
    <<"{", "name:">> \o JsonString(name) \o <<",", "email:">> \o JsonString(email)
        \o <<",", "role:">> \o JsonString(role) \o <<",", "banned:", banned, "}">>

UsersPath == <<"/", "users">>

UserPath(idText) == <<"/", "users", "/">> \o idText

\* request line, header/body boundary, body
Request(method, path, body) ==
    <<method, " ">> \o path \o <<" ", "HTTP", "/", "1.1", "CRLF", "CRLF">> \o body

Alice == <<"a", "@", "b", ".", "c">>

Bob == <<"b", "@", "b", ".", "c">>

Carol == <<"c", ".", "c", "@", "b", ".", "c">>

NoDomainDot == <<"a", "@", "b">>

Bodies ==
    { Body(<<"n1">>, Alice),
      FullBody(<<"n2">>, Bob, <<"admin">>, "true"),
      FullBody(<<"n1">>, Alice, <<"user">>, "false"),
      Body(<<"n1">>, NoDomainDot),
      FullBody(<<"n2">>, NoDomainDot, <<"admin">>, "true"),
      <<"{", "name:">> \o JsonString(<<"n1">>) \o <<"}">>,
      <<"{", "name:">> \o JsonString(<<"n1">>) \o <<",", "email:">> \o JsonString(Alice)
          \o <<",", "role:">> \o JsonString(<<"admin">>) \o <<"}">>,
      <<"{", "id:">> \o JsonString(<<"0", "1">>) \o <<",", "name:">> \o JsonString(<<"n1">>)
          \o <<",", "email:">> \o JsonString(Bob) \o <<",", "role:">> \o JsonString(<<"user">>)
          \o <<",", "banned:", "false", "}">> }

\* identifier texts of request paths: two that parse and one that does not
IdTexts == {<<"0", "1">>, <<"0", "2">>, <<"n", "o">>}

Requests ==
    {Request("GET", UserPath(t), <<>>) : t \in IdTexts}
        \cup {Request("GET", UsersPath, <<>>)}
        \cup {Request("POST", UsersPath, b) : b \in Bodies}
        \cup {Request("PUT", UserPath(t), b) : t \in IdTexts, b \in Bodies}
        \cup {Request("DELETE", UserPath(t), <<>>) : t \in IdTexts}
        \cup {Request("PATCH", UsersPath, <<>>)}

\* a client's byte stream: the chunks the reads return, and whether the
\* client then closes its sending side
Whole(req) == [chunks |-> <<req>>, eof |-> FALSE]

\* the request cut into two reads after its first k tokens
Cut(req, k) == [chunks |-> <<SubSeq(req, 1, k), SubSeq(req, k + 1, Len(req))>>, eof |-> FALSE]

\* only the first k tokens arrive, then the client closes its sending side
Truncated(req, k) == [chunks |-> <<SubSeq(req, 1, k)>>, eof |-> TRUE]

\* request texts around the route prefixes: a method without its route, a
\* route without its slash or with more path after it, a route cut short
OddRequests ==
    { Request("PUT", UsersPath, Body(<<"n1">>, Alice)),
      Request("DELETE", UsersPath, <<>>),
      Request("POST", UserPath(<<"0", "1">>), Body(<<"n1">>, Alice)),
      Request("GET", <<"/", "users", "x">>, <<>>),
      Request("GET", <<"/", "users", "/">>, <<>>),
      Request("GET", <<"/", "user">>, <<>>) }

Streams ==
    {Whole(req) : req \in Requests \cup OddRequests}
        \cup {Cut(Request("GET", UserPath(<<"0", "1">>), <<>>), k) : k \in {3, 11}}
        \cup {Truncated(Request("DELETE", UserPath(<<"0", "1">>), <<>>), k) : k \in {0, 7}}
        \cup {Truncated(Request("GET", UsersPath, <<>>), k) : k \in {3}}

\* creates, updates and deletes that touch the same rows
WriteRequests ==
    { Request("POST", UsersPath, Body(<<"n1">>, Alice)),
      Request("PUT", UserPath(<<"0", "2">>), FullBody(<<"n2">>, Alice, <<"admin">>, "true")),
      Request("DELETE", UserPath(<<"0", "2">>), <<>>) }

WriteStreams == {Whole(req) : req \in WriteRequests}

\* the same, with reads of those rows and an unmatched request
CrudRequests ==
    WriteRequests
        \cup { Request("GET", UserPath(<<"0", "2">>), <<>>),
               Request("GET", UsersPath, <<>>),
               Request("PATCH", UsersPath, <<>>) }

\* how many tokens of a request reach to the end of its header/body boundary
HeadLen(req) == (CHOOSE i \in BoundaryAt(req) : \A j \in BoundaryAt(req) : i <= j) + 1

\* the creates and updates among them cut in two reads: inside the request
\* line, and where the boundary ends, so that the body comes with the second
CutStreams ==
    {Cut(req, k) : req \in {r \in WriteRequests : BodyOf(r) # <<>>}, k \in {3}}
        \cup {Cut(req, HeadLen(req)) : req \in {r \in WriteRequests : BodyOf(r) # <<>>}}

CrudStreams == {Whole(req) : req \in CrudRequests} \cup CutStreams

\* the rows the table may hold when the service starts
InitRows ==
    { [id |-> 1, name |-> <<"n1">>, email |-> Alice, role |-> <<"user">>, banned |-> Some(FALSE)],
      [id |-> 2, name |-> <<"n2">>, email |-> Bob, role |-> <<"admin">>, banned |-> None],
      [id |-> 3, name |-> <<"n1">>, email |-> Carol, role |-> <<"user">>, banned |-> Some(TRUE)] }

InitStores == {s \in SUBSET InitRows : Cardinality(s) <= MaxInitRows /\ TableOk(s)}

(***************************************************************************)
(* State.                                                                  *)
(***************************************************************************)
VARIABLES
    store,  \* the rows of the users table
    ver,    \* how many statements have changed the table so far
    conn    \* per connection: the state of its task

vars == <<store, ver, conn>>

Conns == 1..NumConns

\* the task of a connection that has not been accepted yet
Idle ==
    [pc |-> "idle",      \* idle, unaccepted, reading, framed, connect, stmt,
                         \* insert, respond, done, ioerr, panic
     op |-> "none",      \* get, get_all, post, put, delete, unmatched
     inbox |-> <<>>,     \* chunks the client sent and the task has not read
     eof |-> FALSE,      \* the client closes its sending side after them
     buffer |-> <<>>,    \* the accumulated request text
     id |-> None,        \* the parsed path identifier
     user |-> None,      \* the decoded body
     stmts |-> <<>>,     \* connects and statements issued, with their results
     resp |-> None,      \* (status, content) the handler returned
     after |-> {},       \* connections already answered when accepted
     s0 |-> {}, v0 |-> 0,  \* table and ver when accepted
     s1 |-> {}, v1 |-> 0]  \* table and ver when the handler returned

Init ==
    /\ store \in InitStores
    /\ ver = 0
    /\ conn = [c \in Conns |-> Idle]

(***************************************************************************)
(* Steps of a connection's task.                                           *)
(***************************************************************************)
Set(c, changes) == conn' = [conn EXCEPT ![c] = changes]

\* the handler returns (status, content)
Return(c, status, content, log, newStore, newVer) ==
    [conn[c] EXCEPT !.pc = "respond",
                    !.resp = Some([status |-> status, content |-> content]),
                    !.stmts = log,
                    !.s1 = newStore,
                    !.v1 = newVer]

\* the log of a task's database calls: what was issued, how it ended, and
\* which version of the table it met
Issued(c, stmt, res) == Append(conn[c].stmts, [stmt |-> stmt, res |-> res, at |-> ver])

Answered == {c \in Conns : conn[c].pc = "done"}

\* faulty variant: an accept error ends the accept loop
AcceptUntilError(c, stream) ==
    /\ conn[c].pc = "idle"
    /\ \A d \in Conns : d < c => conn[d].pc \notin {"idle", "unaccepted"}
    /\ Set(c, [conn[c] EXCEPT !.pc = "reading",
                              !.inbox = stream.chunks,
                              !.eof = stream.eof,
                              !.after = Answered,
                              !.s0 = store,
                              !.v0 = ver])
    /\ UNCHANGED <<store, ver>>

\* main.rs 42-52: listener.accept() and tokio::spawn of handle_client
Accept(c, stream) ==
    /\ conn[c].pc = "idle"
    /\ \A d \in Conns : d < c => conn[d].pc # "idle"
    /\ Set(c, [conn[c] EXCEPT !.pc = "reading",
                              !.inbox = stream.chunks,
                              !.eof = stream.eof,
                              !.after = Answered,
                              !.s0 = store,
                              !.v0 = ver])
    /\ UNCHANGED <<store, ver>>

\* main.rs 42, 54: listener.accept() fails; the error is printed, no task
\* is spawned, and the loop goes on to the next accept
AcceptError(c) ==
    /\ conn[c].pc = "idle"
    /\ \A d \in Conns : d < c => conn[d].pc # "idle"
    /\ Set(c, [conn[c] EXCEPT !.pc = "unaccepted"])
    /\ UNCHANGED <<store, ver>>

\* main.rs 64-80: one stream.read() of the framing loop
Read(c) ==
    /\ conn[c].pc = "reading"
    /\ \/ /\ conn[c].inbox # <<>>
          /\ LET buf == conn[c].buffer \o Head(conn[c].inbox)
             IN  Set(c, [conn[c] EXCEPT !.buffer = buf,
                                        !.inbox = Tail(conn[c].inbox),
                                        !.pc = IF HasBoundary(buf) THEN "framed" ELSE "reading"])
       \/ /\ conn[c].inbox = <<>>
          /\ conn[c].eof
          /\ Set(c, [conn[c] EXCEPT !.pc = "framed"])
    /\ UNCHANGED <<store, ver>>

\* main.rs 67: stream.read() fails and `?` ends the task
ReadError(c) ==
    /\ conn[c].pc = "reading"
    /\ Set(c, [conn[c] EXCEPT !.pc = "ioerr"])
    /\ UNCHANGED <<store, ver>>

\* faulty variant: the bare GET prefix is tested before the one with a slash
RouteBareFirst(req) ==
    IF StartsWith(req, <<"GET", " ", "/", "users">>) THEN "get_all"
    ELSE IF StartsWith(req, <<"GET", " ", "/", "users", "/">>) THEN "get"
    ELSE IF StartsWith(req, <<"POST", " ", "/", "users">>) THEN "post"
    ELSE IF StartsWith(req, <<"PUT", " ", "/", "users", "/">>) THEN "put"
    ELSE IF StartsWith(req, <<"DELETE", " ", "/", "users", "/">>) THEN "delete"
    ELSE "unmatched"

\* main.rs 84-93: the first prefix the request text starts with
Route(req) ==
    IF StartsWith(req, <<"GET", " ", "/", "users", "/">>) THEN "get"
    ELSE IF StartsWith(req, <<"GET", " ", "/", "users">>) THEN "get_all"
    ELSE IF StartsWith(req, <<"POST", " ", "/", "users">>) THEN "post"
    ELSE IF StartsWith(req, <<"PUT", " ", "/", "users", "/">>) THEN "put"
    ELSE IF StartsWith(req, <<"DELETE", " ", "/", "users", "/">>) THEN "delete"
    ELSE "unmatched"

Routed(c, op) == conn[c].pc = "framed" /\ Route(conn[c].buffer) = op

ToConnect(c, op, id, user) ==
    [conn[c] EXCEPT !.pc = "connect", !.op = op, !.id = id, !.user = user]

\* main.rs 92: no route matches
Unmatched(c) ==
    /\ Routed(c, "unmatched")
    /\ Set(c, [Return(c, NOT_FOUND, Text("404 Not Found"), <<>>, store, ver)
                 EXCEPT !.op = "unmatched"])
    /\ UNCHANGED <<store, ver>>

\* faulty variant: a malformed identifier is answered like a missing row
GetValidateNotFound(c) ==
    /\ Routed(c, "get")
    /\ LET id == ParseUuid(get_user_id_from_request(conn[c].buffer))
       IN  IF id = None
           THEN Set(c, [Return(c, NOT_FOUND, Text("User not found."), <<>>, store, ver)
                          EXCEPT !.op = "get"])
           ELSE Set(c, ToConnect(c, "get", id, None))
    /\ UNCHANGED <<store, ver>>

\* main.rs 136-140: handle_get_request up to the connect
GetValidate(c) ==
    /\ Routed(c, "get")
    /\ LET id == ParseUuid(get_user_id_from_request(conn[c].buffer))
       IN  IF id = None
           THEN Set(c, [Return(c, BAD_REQUEST, Text("User not found."), <<>>, store, ver)
                          EXCEPT !.op = "get"])
           ELSE Set(c, ToConnect(c, "get", id, None))
    /\ UNCHANGED <<store, ver>>

\* main.rs 165-167: handle_get_all_request up to the connect
GetAllStart(c) ==
    /\ Routed(c, "get_all")
    /\ Set(c, ToConnect(c, "get_all", None, None))
    /\ UNCHANGED <<store, ver>>

\* main.rs 191-205: handle_post_request up to the connect
PostValidate(c) ==
    /\ Routed(c, "post")
    /\ LET user == DecodeUser(BodyOf(conn[c].buffer))
       IN  IF user = None
           THEN Set(c, [Return(c, BAD_REQUEST, Text("Invalid JSON."), <<>>, store, ver)
                          EXCEPT !.op = "post"])
           ELSE IF ~email_regex_is_match(user[1].email)
           THEN Set(c, [Return(c, BAD_REQUEST, Text("Invalid email format."), <<>>, store, ver)
                          EXCEPT !.op = "post", !.user = user])
           ELSE Set(c, ToConnect(c, "post", None, user))
    /\ UNCHANGED <<store, ver>>

\* main.rs 235-247: handle_put_request up to the connect
PutValidate(c) ==
    /\ Routed(c, "put")
    /\ LET id == ParseUuid(get_user_id_from_request(conn[c].buffer))
           user == DecodeUser(BodyOf(conn[c].buffer))
       IN  IF id = None
           THEN Set(c, [Return(c, BAD_REQUEST, Text("Invalid UUID."), <<>>, store, ver)
                          EXCEPT !.op = "put"])
           ELSE IF user = None
           THEN Set(c, [Return(c, BAD_REQUEST, Text("Invalid JSON."), <<>>, store, ver)
                          EXCEPT !.op = "put", !.id = id])
           ELSE Set(c, ToConnect(c, "put", id, user))
    /\ UNCHANGED <<store, ver>>

\* main.rs 269-273: handle_delete_request up to the connect
DeleteValidate(c) ==
    /\ Routed(c, "delete")
    /\ LET id == ParseUuid(get_user_id_from_request(conn[c].buffer))
       IN  IF id = None
           THEN Set(c, [Return(c, BAD_REQUEST, Text("Invalid UUID."), <<>>, store, ver)
                          EXCEPT !.op = "delete"])
           ELSE Set(c, ToConnect(c, "delete", id, None))
    /\ UNCHANGED <<store, ver>>

\* tokio_postgres::connect(db_url, NoTls).await in each handler
\* (main.rs 142, 167, 207, 249, 275): a session opens, or the connect fails
Connect(c) ==
    /\ conn[c].pc = "connect"
    /\ \/ Set(c, [conn[c] EXCEPT !.pc = "stmt", !.stmts = Issued(c, "connect", "open")])
       \/ Set(c, Return(c, INTERNAL_SERVER_ERROR, Text("DB connection error."),
                        Issued(c, "connect", "error"), store, ver))
    /\ UNCHANGED <<store, ver>>

AtStatement(c, op) == conn[c].pc = "stmt" /\ conn[c].op = op

\* main.rs 148-158: query_opt of handle_get_request
GetQuery(c) ==
    /\ AtStatement(c, "get")
    /\ \/ LET rows == SelectById(store, conn[c].id[1])
          IN  IF rows = {}
              THEN Set(c, Return(c, NOT_FOUND, Text("User not found."),
                                 Issued(c, "select_by_id", "none"), store, ver))
              ELSE Set(c, Return(c, OK_RESPONSE,
                                 JsonObject(UserOfRow(CHOOSE r \in rows : TRUE)),
                                 Issued(c, "select_by_id", "row"), store, ver))
       \/ Set(c, Return(c, INTERNAL_SERVER_ERROR, Text("DB error."),
                        Issued(c, "select_by_id", "error"), store, ver))
    /\ UNCHANGED <<store, ver>>

\* main.rs 173-182: query of handle_get_all_request
GetAllQuery(c) ==
    /\ AtStatement(c, "get_all")
    /\ \/ \E q \in Orderings(store) :
            Set(c, Return(c, OK_RESPONSE,
                          JsonArray([i \in 1..Len(q) |-> UserOfRow(q[i])]),
                          Issued(c, "select_all", "rows"), store, ver))
       \/ Set(c, Return(c, INTERNAL_SERVER_ERROR, Text("DB query error."),
                        Issued(c, "select_all", "error"), store, ver))
    /\ UNCHANGED <<store, ver>>

\* faulty variant: the insert is attempted whatever the existence check found
PostExistsIgnored(c) ==
    /\ AtStatement(c, "post")
    /\ \/ Set(c, [conn[c] EXCEPT !.pc = "insert",
                                  !.stmts = Issued(c, "exists",
                                                   IF SelectExists(store, conn[c].user[1].email)
                                                   THEN "true" ELSE "false")])
       \/ Set(c, [conn[c] EXCEPT !.pc = "panic", !.stmts = Issued(c, "exists", "error")])
    /\ UNCHANGED <<store, ver>>

\* main.rs 213-219: the existence check of handle_post_request; unwrap()
\* panics when the query fails, and the task ends without a response
PostExists(c) ==
    /\ AtStatement(c, "post")
    /\ \/ IF SelectExists(store, conn[c].user[1].email)
          THEN Set(c, Return(c, BAD_REQUEST, Text("Email already exists."),
                             Issued(c, "exists", "true"), store, ver))
          ELSE Set(c, [conn[c] EXCEPT !.pc = "insert",
                                      !.stmts = Issued(c, "exists", "false")])
       \/ Set(c, [conn[c] EXCEPT !.pc = "panic", !.stmts = Issued(c, "exists", "error")])
    /\ UNCHANGED <<store, ver>>

\* main.rs 221-226: the insert of handle_post_request
PostInsert(c) ==
    /\ conn[c].pc = "insert"
    /\ LET user == conn[c].user[1]
       IN  \/ \E id \in GenRandomUuid(store) :
                IF InsertRejected(store, id, user.email)
                THEN /\ Set(c, Return(c, INTERNAL_SERVER_ERROR, Text("DB insert error."),
                                      Issued(c, "insert", "rejected"), store, ver))
                     /\ UNCHANGED <<store, ver>>
                ELSE /\ store' = store \cup {NewRow(id, user.name, user.email)}
                     /\ ver' = ver + 1
                     /\ Set(c, Return(c, OK_RESPONSE, Text("User created successfully."),
                                      Issued(c, "insert", "ok"), store', ver'))
           \/ /\ Set(c, Return(c, INTERNAL_SERVER_ERROR, Text("DB insert error."),
                               Issued(c, "insert", "error"), store, ver))
              /\ UNCHANGED <<store, ver>>

\* main.rs 255-260: the update of handle_put_request; the affected-row
\* count is not looked at
PutExecute(c) ==
    /\ AtStatement(c, "put")
    /\ LET id == conn[c].id[1]
           user == conn[c].user[1]
       IN  \/ IF UpdateRejected(store, id, user)
              THEN /\ Set(c, Return(c, INTERNAL_SERVER_ERROR, Text("DB update error."),
                                    Issued(c, "update", "rejected"), store, ver))
                   /\ UNCHANGED <<store, ver>>
              ELSE /\ store' = UpdateRows(store, id, user)
                   /\ ver' = IF SelectById(store, id) = {} THEN ver ELSE ver + 1
                   /\ Set(c, Return(c, OK_RESPONSE, Text("User updated successfully"),
                                    Issued(c, "update",
                                           IF SelectById(store, id) = {} THEN "0" ELSE "n"),
                                    store', ver'))
           \/ /\ Set(c, Return(c, INTERNAL_SERVER_ERROR, Text("DB update error."),
                               Issued(c, "update", "error"), store, ver))
              /\ UNCHANGED <<store, ver>>

\* main.rs 281-288: the delete of handle_delete_request
DeleteExecute(c) ==
    /\ AtStatement(c, "delete")
    /\ LET id == conn[c].id[1]
       IN  \/ IF Cardinality(SelectById(store, id)) = 0
              THEN /\ Set(c, Return(c, NOT_FOUND, Text("User not found."),
                                    Issued(c, "delete", "0"), store, ver))
                   /\ UNCHANGED <<store, ver>>
              ELSE /\ store' = DeleteRows(store, id)
                   /\ ver' = ver + 1
                   /\ Set(c, Return(c, OK_RESPONSE, Text("User deleted successfully."),
                                    Issued(c, "delete", "n"), store', ver'))
           \/ /\ Set(c, Return(c, INTERNAL_SERVER_ERROR, Text("DB delete error."),
                               Issued(c, "delete", "error"), store, ver))
              /\ UNCHANGED <<store, ver>>

\* main.rs 95-100: the response is written to the connection
WriteResponse(c) ==
    /\ conn[c].pc = "respond"
    /\ Set(c, [conn[c] EXCEPT !.pc = "done"])
    /\ UNCHANGED <<store, ver>>

\* main.rs 98: stream.write_all() fails and `?` ends the task
WriteError(c) ==
    /\ conn[c].pc = "respond"
    /\ Set(c, [conn[c] EXCEPT !.pc = "ioerr"])
    /\ UNCHANGED <<store, ver>>

\* the steps of the create, update and delete handlers, sockets working
Writers(c) ==
    \/ Read(c)
    \/ PostValidate(c)
    \/ PutValidate(c)
    \/ DeleteValidate(c)
    \/ Connect(c)
    \/ PostExists(c)
    \/ PostInsert(c)
    \/ PutExecute(c)
    \/ DeleteExecute(c)
    \/ WriteResponse(c)

\* the steps of the two read handlers and of an unmatched request
Readers(c) ==
    \/ Unmatched(c)
    \/ GetValidate(c)
    \/ GetAllStart(c)
    \/ GetQuery(c)
    \/ GetAllQuery(c)

\* a socket read or write fails
SocketErrors(c) ==
    \/ ReadError(c)
    \/ WriteError(c)

\* NumConns clients served concurrently, each sending a create, an update
\* or a delete
Next ==
    \E c \in Conns :
        \/ \E stream \in WriteStreams : Accept(c, stream)
        \/ Writers(c)

Spec == Init /\ [][Next]_vars

\* every earlier connection's task has ended
Alone(c) == \A d \in Conns \ {c} : conn[d].pc \in {"idle", "done", "ioerr", "panic"}

\* NumConns clients served one after the other
NextSeq ==
    \E c \in Conns :
        /\ Alone(c)
        /\ \/ \E stream \in CrudStreams : Accept(c, stream)
           \/ Writers(c)
           \/ Readers(c)

SpecSeq == Init /\ [][NextSeq]_vars

\* one client, sending any of the request streams
NextOne ==
    \/ \E stream \in Streams : Accept(1, stream)
    \/ Writers(1)
    \/ Readers(1)
    \/ SocketErrors(1)

SpecOne == Init /\ [][NextOne]_vars

\* a create and a get-one, whose store calls and sockets may fail
FailRequests ==
    { Request("POST", UsersPath, Body(<<"n1">>, Alice)),
      Request("GET", UserPath(<<"0", "1">>), <<>>) }

FailStreams == {Whole(req) : req \in FailRequests}

\* the steps of a task serving one of them, nothing failing
Proceed(c) ==
    \/ Read(c)
    \/ PostValidate(c)
    \/ GetValidate(c)
    \/ Connect(c)
    \/ PostExists(c)
    \/ PostInsert(c)
    \/ GetQuery(c)
    \/ WriteResponse(c)

\* NumConns connection attempts served concurrently; accepts, sockets and
\* store calls may fail
NextFail ==
    \E c \in Conns :
        \/ \E stream \in FailStreams : Accept(c, stream)
        \/ AcceptError(c)
        \/ Proceed(c)
        \/ SocketErrors(c)

SpecFail == Init /\ [][NextFail]_vars

(***************************************************************************)
(* What the properties read off a task.                                    *)
(***************************************************************************)
\* the handler has returned its (status, content)
Returned(c) == conn[c].resp # None

Status(c) == conn[c].resp[1].status.code

Said(c, code, text) ==
    /\ Returned(c)
    /\ Status(c) = code
    /\ conn[c].resp[1].content.type = "text"
    /\ conn[c].resp[1].content.text = text

Log(c) == conn[c].stmts

Entries(c, stmt) == {i \in 1..Len(Log(c)) : Log(c)[i].stmt = stmt}

Results(c, stmt) == {Log(c)[i].res : i \in Entries(c, stmt)}

\* the table version the task's statement met
MetAt(c, stmt) == Log(c)[CHOOSE i \in Entries(c, stmt) : TRUE].at

\* a connect or a statement of the task failed
Failed(c) == \E i \in 1..Len(Log(c)) : Log(c)[i].res = "error"

\* a statement of the task changed the table
Wrote(c) == \E i \in 1..Len(Log(c)) : Log(c)[i].res \in {"ok", "n"}

\* no other task changed the table while this one was served
Quiet(c) == conn[c].v1 - conn[c].v0 = IF Wrote(c) THEN 1 ELSE 0

\* task j was accepted after task i was answered, and the table did not
\* change in between
RightAfter(i, j) == i \in conn[j].after /\ conn[j].v0 = conn[i].v1

RequestOp(c) == Route(conn[c].buffer)

RequestId(c) == ParseUuid(get_user_id_from_request(conn[c].buffer))

RequestUser(c) == DecodeUser(BodyOf(conn[c].buffer))

\* the email of the body the task decoded
EmailOf(c) == conn[c].user[1].email

\* a create, returned, whose body decoded and carries the shape-valid email e
CreateOf(c, e) ==
    /\ Returned(c)
    /\ conn[c].op = "post"
    /\ conn[c].user # None
    /\ EmailOf(c) = e
    /\ email_regex_is_match(e)

(***************************************************************************)
(* C1: two creates with the same shape-valid email e, the second accepted  *)
(* after the first was answered, no store failure, no row with e before    *)
(* the first: they answer 200 'User created successfully.' and then 400    *)
(* 'Email already exists.', the second issues no insert, and the table     *)
(* ends with exactly one row whose email is e.                             *)
(***************************************************************************)
TwoCreates(i, j, e) ==
    /\ i # j
    /\ Returned(i) /\ Returned(j)
    /\ RightAfter(i, j)
    /\ Quiet(i) /\ Quiet(j)
    /\ ~Failed(i) /\ ~Failed(j)
    /\ CreateOf(i, e) /\ CreateOf(j, e)
    /\ ~SelectExists(conn[i].s0, e)

C1_SequentialDuplicateCreate ==
    \A i, j \in Conns :
        TwoCreates(i, j, EmailOf(i)) =>
            /\ Said(i, 200, "User created successfully.")
            /\ Said(j, 400, "Email already exists.")
            /\ Results(j, "insert") = {}
            /\ Cardinality(RowsWithEmail(conn[j].s1, EmailOf(i))) = 1

C1_Witness ==
    \E i, j \in Conns : TwoCreates(i, j, Alice) /\ conn[i].s0 # {} /\ conn[j].pc = "done"

(***************************************************************************)
(* C2: a create with a decodable body and a shape-valid email no row       *)
(* holds, no store failure: it answers 200, the table gains exactly one    *)
(* row, with the request's name and email, role "user", banned false and   *)
(* an id no row had; a later get-one of that id or get-all, no write in    *)
(* between, returns those values.                                          *)
(***************************************************************************)
FreshCreate(c, e) ==
    /\ CreateOf(c, e)
    /\ ~Failed(c)
    /\ ~SelectExists(conn[c].s0, e)
    /\ Quiet(c)

CreatedUser(c, id) ==
    [id |-> Some(id), name |-> RequestUser(c)[1].name, email |-> RequestUser(c)[1].email,
     role |-> Some(<<"user">>), banned |-> Some(FALSE)]

\* a read served right after task c, answered without failure
ReadAfter(c, g, op) ==
    /\ g # c
    /\ Returned(g)
    /\ RequestOp(g) = op
    /\ ~Failed(g)
    /\ RightAfter(c, g)
    /\ Quiet(g)

C2_CreateThenRead ==
    \A c \in Conns :
        FreshCreate(c, EmailOf(c)) =>
            /\ Said(c, 200, "User created successfully.")
            /\ \E r \in conn[c].s1 :
                /\ conn[c].s1 = conn[c].s0 \cup {r}
                /\ r.id \notin IdsOf(conn[c].s0)
                /\ r.name = RequestUser(c)[1].name
                /\ r.email = RequestUser(c)[1].email
                /\ r.role = <<"user">>
                /\ r.banned = Some(FALSE)
                /\ \A g \in Conns :
                    /\ (ReadAfter(c, g, "get") /\ RequestId(g) = Some(r.id)) =>
                          /\ Status(g) = 200
                          /\ conn[g].resp[1].content.type = "object"
                          /\ conn[g].resp[1].content.users = <<CreatedUser(c, r.id)>>
                    /\ ReadAfter(c, g, "get_all") =>
                          /\ Status(g) = 200
                          /\ conn[g].resp[1].content.type = "array"
                          /\ \E k \in 1..Len(conn[g].resp[1].content.users) :
                                conn[g].resp[1].content.users[k] = CreatedUser(c, r.id)

C2_Witness ==
    \E c, g \in Conns :
        /\ FreshCreate(c, Alice)
        /\ ReadAfter(c, g, "get")
        /\ RequestId(g) # None
        /\ RequestId(g)[1] \in IdsOf(conn[c].s1) \ IdsOf(conn[c].s0)

(***************************************************************************)
(* C3: two deletes of a stored id, the second accepted after the first was *)
(* answered, nothing written in between, no store failure: they answer 200 *)
(* 'User deleted successfully.' and then 404 'User not found.'; after the  *)
(* first no row has that id, and every other row is as it was.             *)
(***************************************************************************)
TwoDeletes(i, j) ==
    /\ i # j
    /\ Returned(i) /\ Returned(j)
    /\ conn[i].op = "delete" /\ conn[j].op = "delete"
    /\ RightAfter(i, j)
    /\ Quiet(i) /\ Quiet(j)
    /\ ~Failed(i) /\ ~Failed(j)
    /\ conn[i].id # None /\ conn[j].id = conn[i].id
    /\ conn[i].id[1] \in IdsOf(conn[i].s0)

C3_DeleteTwice ==
    \A i, j \in Conns :
        TwoDeletes(i, j) =>
            /\ Said(i, 200, "User deleted successfully.")
            /\ Said(j, 404, "User not found.")
            /\ conn[i].s1 = {r \in conn[i].s0 : r.id # conn[i].id[1]}
            /\ conn[j].s1 = conn[i].s1

C3_Witness ==
    \E i, j \in Conns : TwoDeletes(i, j) /\ conn[j].s1 # {} /\ conn[j].pc = "done"

(***************************************************************************)
(* C4: an update with a well-formed id that matches no row and a decodable *)
(* body answers 200 'User updated successfully' whenever its statement     *)
(* executes without error, and leaves the table as it was; a delete of     *)
(* such an id answers 404 and leaves the table as it was.                  *)
(***************************************************************************)
\* the task's request names a well-formed id no row has, and its statement
\* executed without error
Unmatching(c, op, stmt) ==
    /\ Returned(c)
    /\ RequestOp(c) = op
    /\ RequestId(c) # None
    /\ RequestId(c)[1] \notin IdsOf(conn[c].s0)
    /\ Quiet(c)
    /\ Entries(c, stmt) # {}
    /\ "error" \notin Results(c, stmt)

C4_UpdateMissingIs200DeleteIs404 ==
    \A c \in Conns :
        /\ (Unmatching(c, "put", "update") /\ RequestUser(c) # None) =>
              /\ Said(c, 200, "User updated successfully")
              /\ conn[c].s1 = conn[c].s0
        /\ Unmatching(c, "delete", "delete") =>
              /\ Said(c, 404, "User not found.")
              /\ conn[c].s1 = conn[c].s0

C4_Witness ==
    \E c \in Conns :
        /\ Unmatching(c, "put", "update")
        /\ RequestUser(c) # None
        /\ RequestUser(c)[1].role = None
        /\ conn[c].s0 # {}
        /\ conn[c].pc = "done"

(***************************************************************************)
(* C5: get-one, update, delete: when the identifier of the path does not   *)
(* parse, the answer is 400, no database session is opened and no          *)
(* statement is issued, whatever the body and the table hold.              *)
(***************************************************************************)
\* the task has routed its request
Handled(c) == conn[c].pc \notin {"idle", "reading", "framed"}

MalformedId(c) ==
    /\ Handled(c)
    /\ RequestOp(c) \in {"get", "put", "delete"}
    /\ RequestId(c) = None

C5_MalformedIdIs400 ==
    \A c \in Conns :
        MalformedId(c) =>
            /\ Returned(c)
            /\ Status(c) = 400
            /\ Log(c) = <<>>
            /\ conn[c].s1 = conn[c].s0

C5_Witness ==
    \E c \in Conns :
        /\ MalformedId(c)
        /\ RequestOp(c) = "put"
        /\ RequestUser(c) # None
        /\ store # {}
        /\ conn[c].pc = "done"

(***************************************************************************)
(* C6: every operation, every statement: when opening the session or the   *)
(* statement fails, the request is answered 500, the statement is not      *)
(* retried, and the task still writes that response.                       *)
(***************************************************************************)
C6_StoreFailureIs500 ==
    \A c \in Conns :
        Failed(c) =>
            /\ Returned(c)
            /\ Status(c) = 500
            /\ conn[c].pc \in {"respond", "done", "ioerr"}
            /\ Log(c)[Len(Log(c))].res = "error"
            /\ \A i, k \in 1..Len(Log(c)) : Log(c)[i].stmt = Log(c)[k].stmt => i = k

(***************************************************************************)
(* C7: create and update: when the body does not decode as a User, or its  *)
(* email violates the email-shape rule, the answer is 400, no database     *)
(* session is opened and no statement is issued, and the table is as it    *)
(* was.                                                                    *)
(***************************************************************************)
MalformedBody(c) ==
    /\ Handled(c)
    /\ RequestOp(c) \in {"post", "put"}
    /\ \/ RequestUser(c) = None
       \/ ~email_regex_is_match(RequestUser(c)[1].email)

C7_MalformedBodyIs400 ==
    \A c \in Conns :
        MalformedBody(c) =>
            /\ Log(c) = <<>>
            /\ Returned(c) => (Status(c) = 400 /\ conn[c].s1 = conn[c].s0)

(***************************************************************************)
(* C8: in every reachable state, under every interleaving of creates,      *)
(* updates and deletes, no two rows have the same email and no two rows    *)
(* the same id; a create or update that would give a second row an email   *)
(* already stored leaves the table as it was.                              *)
(***************************************************************************)
\* this step executes task c's insert or update, and a row other than the
\* one it writes holds its email
WouldDuplicate(c) ==
    \/ /\ conn[c].pc = "insert"
       /\ conn'[c].pc # "insert"
       /\ conn[c].user[1].email \in EmailsOf(store)
    \/ /\ AtStatement(c, "put")
       /\ conn'[c].pc # "stmt"
       /\ SelectById(store, conn[c].id[1]) # {}
       /\ \E r \in store : r.id # conn[c].id[1] /\ r.email = conn[c].user[1].email

C8_UniqueEmailAndId ==
    /\ [](TableOk(store) /\ Cardinality(IdsOf(store)) = Cardinality(store)
                         /\ Cardinality(EmailsOf(store)) = Cardinality(store))
    /\ [][\A c \in Conns : WouldDuplicate(c) => store' = store]_vars

C8_Witness ==
    \E c \in Conns :
        /\ "rejected" \in Results(c, "update")
        /\ Cardinality(store) >= 2

(***************************************************************************)
(* C9, as amended: two concurrent creates with the same fresh email can    *)
(* both pass the existence check before either inserts; the first insert   *)
(* takes effect, the UNIQUE constraint rejects the second, which is        *)
(* answered 500 'DB insert error.', and the table holds one row with that  *)
(* email.                                                                  *)
(***************************************************************************)
\* i and j create with email e; both existence checks and i's insert met
\* the same table, and j's insert met the table i's insert left
Raced(i, j, e) ==
    /\ i # j
    /\ Returned(i) /\ Returned(j)
    /\ conn[i].op = "post" /\ conn[j].op = "post"
    /\ Entries(i, "insert") # {} /\ Entries(j, "insert") # {}
    /\ ~Failed(i) /\ ~Failed(j)
    /\ Results(i, "exists") = {"false"} /\ Results(j, "exists") = {"false"}
    /\ MetAt(i, "exists") = MetAt(i, "insert")
    /\ MetAt(j, "exists") = MetAt(i, "insert")
    /\ MetAt(j, "insert") = MetAt(i, "insert") + 1
    /\ CreateOf(i, e) /\ CreateOf(j, e)

C9_RaceRejectedByUnique ==
    \A i, j \in Conns :
        Raced(i, j, EmailOf(i)) =>
            /\ Results(i, "insert") = {"ok"}
            /\ Results(j, "insert") = {"rejected"}
            /\ Said(i, 200, "User created successfully.")
            /\ Said(j, 500, "DB insert error.")
            /\ Cardinality(RowsWithEmail(conn[j].s1, EmailOf(i))) = 1

C9_Witness == \E i, j \in Conns : Raced(i, j, Alice) /\ conn[j].pc = "done"

\* C9 as claimed: in that interleaving both inserts take effect and the
\* table holds two rows with that email
C9_RaceDuplicatesEmail ==
    \A i, j \in Conns :
        Raced(i, j, EmailOf(i)) =>
            /\ Results(i, "insert") = {"ok"}
            /\ Results(j, "insert") = {"ok"}
            /\ Cardinality(RowsWithEmail(conn[j].s1, EmailOf(i))) = 2

(***************************************************************************)
(* C10: a create that finds, when it would insert, that a row already      *)
(* holds its email (also a row a concurrent create inserted after this     *)
(* request's own check) is answered 400 'Email already exists.' and        *)
(* attempts no insert; it is never answered 500.                           *)
(***************************************************************************)
\* task c's create reached the table, inserted nothing, and a row held its
\* email when its last statement ran
FoundDuplicate(c, e) ==
    /\ CreateOf(c, e)
    /\ ~Failed(c)
    /\ Entries(c, "exists") # {}
    /\ "ok" \notin Results(c, "insert")
    /\ e \in EmailsOf(conn[c].s1)

C10_DuplicateIs400 ==
    \A c \in Conns :
        FoundDuplicate(c, EmailOf(c)) =>
            /\ Said(c, 400, "Email already exists.")
            /\ Entries(c, "insert") = {}

(***************************************************************************)
(* C11: no step of a get-one or get-all changes the table; two get-alls    *)
(* answered 200 that met the same version of the table (no write took      *)
(* effect between them) return the same set of users, one per stored row,  *)
(* each with the id, name, email, role and banned of its row.              *)
(***************************************************************************)
\* this step is taken by a task serving a get-one or a get-all
ReaderStep(c) == conn'[c] # conn[c] /\ conn'[c].op \in {"get", "get_all"}

GetAllOk(c) ==
    /\ Returned(c)
    /\ conn[c].op = "get_all"
    /\ Status(c) = 200
    /\ conn[c].resp[1].content.type = "array"

\* the users of a task's response, as a set
UsersOf(c) ==
    {conn[c].resp[1].content.users[k] : k \in 1..Len(conn[c].resp[1].content.users)}

\* what the rows of a table read as
StoredUsers(s) ==
    {[id |-> Some(r.id), name |-> r.name, email |-> r.email,
      role |-> Some(r.role), banned |-> r.banned] : r \in s}

SameTable(i, j) == MetAt(i, "select_all") = MetAt(j, "select_all")

C11_ReadsLeaveStoreGetAllIdempotent ==
    /\ [][\A c \in Conns : ReaderStep(c) => (store' = store /\ ver' = ver)]_vars
    /\ [](\A i, j \in Conns :
            (GetAllOk(i) /\ GetAllOk(j) /\ SameTable(i, j)) =>
                /\ UsersOf(i) = UsersOf(j)
                /\ UsersOf(i) = StoredUsers(conn[i].s1)
                /\ Len(conn[i].resp[1].content.users) = Cardinality(conn[i].s1))

C11_Witness ==
    \E i, j \in Conns :
        /\ i # j
        /\ GetAllOk(i) /\ GetAllOk(j) /\ SameTable(i, j)
        /\ Cardinality(conn[i].s1) = 2
        /\ conn[i].resp[1].content.users # conn[j].resp[1].content.users
        /\ conn[i].pc = "done" /\ conn[j].pc = "done"

(***************************************************************************)
(* C12: a request is dispatched by the first of the prefixes GET /users/,  *)
(* GET /users, POST /users, PUT /users/, DELETE /users/ its text begins    *)
(* with: a text beginning with GET /users/ goes to get-one, never to       *)
(* get-all; a text beginning with none of them, an empty or cut-short one  *)
(* included, is answered 404 with nothing validated, no session opened and *)
(* no statement issued.                                                    *)
(***************************************************************************)
RouteOrder ==
    << [prefix |-> <<"GET", " ", "/", "users", "/">>, op |-> "get"],
       [prefix |-> <<"GET", " ", "/", "users">>, op |-> "get_all"],
       [prefix |-> <<"POST", " ", "/", "users">>, op |-> "post"],
       [prefix |-> <<"PUT", " ", "/", "users", "/">>, op |-> "put"],
       [prefix |-> <<"DELETE", " ", "/", "users", "/">>, op |-> "delete"] >>

\* the routes whose prefix the text begins with
Matching(text) == {k \in 1..Len(RouteOrder) : StartsWith(text, RouteOrder[k].prefix)}

\* the task's framing loop ended and its request was dispatched
Dispatched(c) == Handled(c) /\ (conn[c].pc = "ioerr" => Returned(c))

C12_RoutedByFirstPrefix ==
    \A c \in Conns :
        Dispatched(c) =>
            /\ StartsWith(conn[c].buffer, RouteOrder[1].prefix) => conn[c].op = "get"
            /\ \A k \in Matching(conn[c].buffer) :
                  (\A m \in Matching(conn[c].buffer) : k <= m) => conn[c].op = RouteOrder[k].op
            /\ Matching(conn[c].buffer) = {} =>
                  /\ conn[c].op = "unmatched"
                  /\ Said(c, 404, "404 Not Found")
                  /\ conn[c].id = None /\ conn[c].user = None
                  /\ Log(c) = <<>>
                  /\ conn[c].s1 = conn[c].s0

\* a request cut short inside a route prefix, answered after end-of-input
C12_Witness ==
    \E c \in Conns :
        /\ Dispatched(c)
        /\ conn[c].eof
        /\ conn[c].buffer = <<"GET", " ", "/">>
        /\ Matching(conn[c].buffer) = {}
        /\ store # {}
        /\ conn[c].pc = "done"

(***************************************************************************)
(* C13: failures stay with their connection.  Whatever accepts, socket     *)
(* reads or writes, store calls or tasks have failed, every task in flight *)
(* has a next step and the listener can accept the next connection; a step *)
(* of one task changes no other task; and two tasks sent the same request  *)
(* whose store calls met the same table with the same results return the   *)
(* same (status, content).                                                 *)
(***************************************************************************)
InFlight(c) == conn[c].pc \in {"reading", "framed", "connect", "stmt", "insert", "respond"}

\* the accept failed, or the task ended on a socket error or a panic, or a
\* store call of it failed
Broken(c) == conn[c].pc \in {"unaccepted", "ioerr", "panic"} \/ Failed(c)

NextToAccept(c) == conn[c].pc = "idle" /\ \A d \in Conns : d < c => conn[d].pc # "idle"

SameRequestSameTable(i, j) ==
    /\ Returned(i) /\ Returned(j)
    /\ conn[i].buffer = conn[j].buffer
    /\ Log(i) = Log(j)

\* the task has a next step: a framed request is handed to the handler it
\* routes to, and at every other point the task's step is enabled
CanProceed(c) ==
    IF conn[c].pc = "framed"
    THEN Routed(c, "post") \/ Routed(c, "get")
    ELSE ENABLED (Read(c) \/ Connect(c) \/ PostExists(c) \/ PostInsert(c)
                    \/ GetQuery(c) \/ WriteResponse(c))

C13_FailuresIsolated ==
    /\ [](\A c \in Conns :
            /\ InFlight(c) => CanProceed(c)
            /\ NextToAccept(c) => ENABLED (\E stream \in FailStreams : Accept(c, stream)))
    /\ [][\A c, d \in Conns : (c # d /\ conn'[c] # conn[c]) => conn'[d] = conn[d]]_vars
    /\ [](\A i, j \in Conns : SameRequestSameTable(i, j) => conn[i].resp = conn[j].resp)

\* one task has panicked and another holds the row it read, about to answer
C13_Witness ==
    \E c, d \in Conns :
        /\ conn[c].pc = "panic"
        /\ conn[d].pc = "respond"
        /\ conn[d].op = "get"
        /\ Status(d) = 200

(***************************************************************************)
(* C14: a task only moves forward through reading, framed, validated,      *)
(* executing, responding, ended, and an ended task never moves again.  It  *)
(* returns at most one response, opens at most one session, and issues at  *)
(* most one statement: a create at most the existence check and then the   *)
(* insert, the insert only when the check found no row.  Nothing is opened *)
(* or issued for an unmatched request, after a validation failure, or once *)
(* the handler has returned.                                               *)
(***************************************************************************)
Ended == {"done", "ioerr", "panic"}

Phase(pc) ==
    CASE pc = "idle" -> 0
      [] pc = "reading" -> 1
      [] pc = "framed" -> 2
      [] pc = "connect" -> 3
      [] pc = "stmt" -> 4
      [] pc = "insert" -> 5
      [] pc = "respond" -> 6
      [] pc \in Ended -> 7
      [] pc = "unaccepted" -> 7

\* the statement each operation issues on its session
StatementOf(op) ==
    CASE op = "get" -> "select_by_id"
      [] op = "get_all" -> "select_all"
      [] op = "post" -> "exists"
      [] op = "put" -> "update"
      [] op = "delete" -> "delete"
      [] OTHER -> "none"

\* the shapes a task's log of store calls may have
OneSessionOneStatement(c) ==
    /\ Len(Log(c)) <= 3
    /\ Len(Log(c)) >= 1 => Log(c)[1].stmt = "connect"
    /\ Len(Log(c)) >= 2 =>
          /\ Log(c)[1].res = "open"
          /\ Log(c)[2].stmt = StatementOf(conn[c].op)
    /\ Len(Log(c)) = 3 =>
          /\ conn[c].op = "post"
          /\ Log(c)[2].res = "false"
          /\ Log(c)[3].stmt = "insert"

\* the request was answered by the router or by a handler's validation
RejectedEarly(c) ==
    /\ Returned(c)
    /\ \/ conn[c].op = "unmatched"
       \/ Said(c, 400, "User not found.")
       \/ Said(c, 400, "Invalid UUID.")
       \/ Said(c, 400, "Invalid JSON.")
       \/ Said(c, 400, "Invalid email format.")

C14_ForwardOnly ==
    /\ [](\A c \in Conns :
            /\ OneSessionOneStatement(c)
            /\ RejectedEarly(c) => Log(c) = <<>>)
    /\ [][\A c \in Conns :
            /\ Phase(conn'[c].pc) >= Phase(conn[c].pc)
            /\ (conn'[c] # conn[c] /\ conn[c].pc # "reading") =>
                  Phase(conn'[c].pc) > Phase(conn[c].pc)
            /\ Returned(c) => (conn'[c].resp = conn[c].resp /\ conn'[c].stmts = conn[c].stmts)
            /\ conn[c].pc \in Ended => conn'[c] = conn[c]]_vars

\* a create that went through every phase: session, check, insert, response
C14_Witness ==
    \E c \in Conns :
        /\ conn[c].pc = "done"
        /\ conn[c].op = "post"
        /\ Len(Log(c)) = 3
        /\ Log(c)[3].res = "ok"
        /\ Status(c) = 200

(***************************************************************************)
(* C15: a task ends without a response only on a socket error: whenever    *)
(* its reads and its write did not fail, its client sent the boundary or   *)
(* closed, and its store calls returned, with a result or an error, the    *)
(* task that has ended has written its one response.                       *)
(***************************************************************************)
C15_EndsOnlyByResponding ==
    \A c \in Conns :
        (conn[c].pc \in Ended /\ conn[c].pc # "ioerr") =>
            /\ conn[c].pc = "done"
            /\ Returned(c)

(***************************************************************************)
(* C16: in every reachable state, after any creates, updates and deletes,  *)
(* the email of every row of the table satisfies the email-shape rule.     *)
(***************************************************************************)
C16_StoredEmailsShaped == \A r \in store : email_regex_is_match(r.email)

(***************************************************************************)
(* C17: role and banned default when the body leaves them out, on create   *)
(* and on update: a create of a fresh shape-valid email, or an update of a *)
(* stored row to an email no other row holds, with no store failure, is    *)
(* answered 200, and the row it writes has a role and a banned that are    *)
(* not null: role "user" when the body has no role, banned false when the  *)
(* body has no banned.                                                     *)
(***************************************************************************)
\* a create or an update that has a row to write, its store calls not failing
WritesRow(c) ==
    /\ Returned(c)
    /\ conn[c].op \in {"post", "put"}
    /\ conn[c].user # None
    /\ Entries(c, "connect") # {}
    /\ ~Failed(c)
    /\ Quiet(c)
    /\ conn[c].op = "post" =>
          (EmailOf(c) \notin EmailsOf(conn[c].s0) /\ email_regex_is_match(EmailOf(c)))
    /\ conn[c].op = "put" =>
          /\ conn[c].id[1] \in IdsOf(conn[c].s0)
          /\ \A r \in conn[c].s0 : r.email = EmailOf(c) => r.id = conn[c].id[1]

WrittenRows(c) ==
    IF conn[c].op = "put"
    THEN SelectById(conn[c].s1, conn[c].id[1])
    ELSE conn[c].s1 \ conn[c].s0

C17_RoleAndBannedDefault ==
    \A c \in Conns :
        WritesRow(c) =>
            /\ Status(c) = 200
            /\ WrittenRows(c) # {}
            /\ \A r \in WrittenRows(c) :
                  /\ r.role # None
                  /\ r.banned # None
                  /\ conn[c].user[1].role = None => r.role = <<"user">>
                  /\ conn[c].user[1].banned = None => r.banned = Some(FALSE)

(***************************************************************************)
(* C18: no request changes the id of a stored row, and an id in a body is  *)
(* never used.  Every row a request leaves in the table with an id that    *)
(* was there before is the row it was, except the row an update names in   *)
(* its path; a create adds one row under an id no row had; an update that  *)
(* takes effect keeps the set of ids, and gives the row of the path id the *)
(* body's name, email, role and banned.                                    *)
(***************************************************************************)
\* the task was served with no other task writing the table
ServedAlone(c) == Returned(c) /\ Quiet(c)

\* the update took effect
Updated(c) == conn[c].op = "put" /\ "n" \in Results(c, "update")

C18_IdImmutable ==
    \A c \in Conns :
        ServedAlone(c) =>
            /\ \A r \in conn[c].s1 :
                  r.id \in IdsOf(conn[c].s0) =>
                      \/ r \in conn[c].s0
                      \/ Updated(c) /\ r.id = conn[c].id[1]
            /\ conn[c].op # "delete" => IdsOf(conn[c].s0) \subseteq IdsOf(conn[c].s1)
            /\ conn[c].op # "post" => IdsOf(conn[c].s1) \subseteq IdsOf(conn[c].s0)
            /\ Cardinality(IdsOf(conn[c].s1) \ IdsOf(conn[c].s0)) <= 1
            /\ Updated(c) =>
                  \E r \in conn[c].s1 :
                      /\ r.id = conn[c].id[1]
                      /\ r.name = conn[c].user[1].name
                      /\ r.email = conn[c].user[1].email
                      /\ Some(r.role) = conn[c].user[1].role
                      /\ r.banned = conn[c].user[1].banned

\* an update of one row whose body carries the id of another row
C18_Witness ==
    \E c \in Conns :
        /\ ServedAlone(c)
        /\ Updated(c)
        /\ conn[c].user[1].id # None
        /\ conn[c].user[1].id # conn[c].id
        /\ conn[c].user[1].id[1] \in IdsOf(conn[c].s0)
        /\ conn[c].s1 # conn[c].s0
        /\ conn[c].pc = "done"

(***************************************************************************)
(* C19: the outcome of a complete create or update does not depend on how  *)
(* its bytes are split across reads: two tasks sent the same bytes, each   *)
(* served alone on the same table with no store failure, return the same   *)
(* (status, content) and leave the same table, also when the body comes in *)
(* a later read than the boundary.                                         *)
(***************************************************************************)
RECURSIVE Concat(_)
Concat(chunks) == IF chunks = <<>> THEN <<>> ELSE Head(chunks) \o Concat(Tail(chunks))

\* every byte the client sent, read by the task or not
Sent(c) == conn[c].buffer \o Concat(conn[c].inbox)

\* a request line, the boundary and a body that decodes as a User
CompleteWrite(text) ==
    /\ Route(text) \in {"post", "put"}
    /\ HasBoundary(text)
    /\ DecodeUser(BodyOf(text)) # None

SameBytesSameTable(i, j) ==
    /\ i # j
    /\ Returned(i) /\ Returned(j)
    /\ conn[i].s0 = conn[j].s0
    /\ Quiet(i) /\ Quiet(j)
    /\ ~Failed(i) /\ ~Failed(j)
    /\ Sent(i) = Sent(j)
    /\ CompleteWrite(Sent(i))

C19_SegmentationIndependent ==
    \A i, j \in Conns :
        SameBytesSameTable(i, j) =>
            /\ conn[i].resp = conn[j].resp
            /\ conn[i].s1 = conn[j].s1

(***************************************************************************)
(* C20: every response has one status line, of 200, 400, 404 or 500, and   *)
(* one body; it carries the header Content-Type: application/json exactly  *)
(* when its body is JSON, the user of a get-one or the array of a get-all, *)
(* so the 200 of a create, an update or a delete, whose body is a fixed    *)
(* text, carries no header.                                                *)
(***************************************************************************)
JsonContent(c) == conn[c].resp[1].content.type \in {"object", "array"}

C20_ContentTypeIffJson ==
    \A c \in Conns :
        Returned(c) =>
            /\ Len(conn[c].resp) = 1
            /\ Status(c) \in {200, 400, 404, 500}
            /\ JsonContent(c) <=> (Status(c) = 200 /\ conn[c].op \in {"get", "get_all"})
            /\ conn[c].resp[1].status.headers =
                  IF JsonContent(c) THEN <<"Content-Type: application/json">> ELSE <<>>

====
